---- MODULE Spec2Model ----
(***************************************************************************)
(* Duplicate-file finder: the catalog (file_list.c), its sort, the         *)
(* grouper find_and_print_duplicates and the content comparator            *)
(* compare_files_content (duplicate_finder.c), driven by main (main.c).    *)
(*                                                                         *)
(* Specifications:                                                         *)
(*   Spec       main: collect records, sort, run the grouper; a comparison *)
(*              is one step whose result is computed by running the        *)
(*              comparator's system calls to the end, one of which may     *)
(*              fail.                                                      *)
(*   SpecFair   Spec, the program never halting while a step is possible.   *)
(*   SpecRerun  Spec followed by a second run of the grouper on the same   *)
(*              catalog with the flags cleared.                            *)
(*   SpecCmp    compare_files_content invoked on two files, and again on   *)
(*              two files, one system call per step.                       *)
(*   SpecMime   Spec followed by a second run of sort and grouper on the    *)
(*              same catalog with other MIME types.                        *)
(*   SpecCall   find_and_print_duplicates called by a caller other than    *)
(*              main, on a catalog of any number of records.               *)
(*   SpecAlloc  Spec with memory running short: any add_file_to_list call  *)
(*              may fail to allocate.                                      *)
(*                                                                         *)
(* Modelling assumptions (stated once, used throughout):                   *)
(*   - the files on disk do not change during a run;                       *)
(*   - read() on a regular file returns min(READ_BUFFER_SIZE, bytes left); *)
(*   - close() releases the descriptor also when it reports an error;      *)
(*   - the collector hands every path to the catalog at most once;         *)
(*   - memory is available, every allocation succeeds (all but SpecAlloc). *)
(***************************************************************************)
EXTENDS Integers, Sequences, FiniteSets, TLC

\* ------------------------------------------------------------------ bounds
\* Most records the collector appends to the catalog.
MaxFiles == 4
\* Most records of a catalog on which the grouper is run a second time
\* (SpecRerun).
MaxRerunFiles == 3
\* Most records of a catalog on which sort and grouper are run a second
\* time with other MIME types (SpecMime); four records give two sets.
MaxMimeFiles == 4
\* Most records of a catalog whose run is followed to its end under
\* fairness (SpecFair).
MaxFairFiles == 3
\* Longest file compare_files_content is run on in SpecCmp, in bytes.
MaxLen == 3
\* Largest byte value in a file (bytes are 0..MaxByte).
MaxByte == 1
\* Bytes per read(): defs.h sets 8192; scaled down so that files of MaxLen
\* bytes take several reads, the last of them a short one.
READ_BUFFER_SIZE == 2
\* Most invocations of compare_files_content in a row (SpecCmp).
MaxInvocations == 2

VARIABLES
    items,      \* list->items of all_files: sequence of file_info_t
    disk,       \* path -> bytes of the regular files the collector has seen
    pc,         \* where main / find_and_print_duplicates stands
    i,          \* outer cursor of find_and_print_duplicates
    j,          \* seed cursor
    k,          \* candidate cursor
    block_start,
    block_end,
    current_duplicate_set,  \* items of the set being built
    duplicate_sets_found,
    printed,    \* stdout: the sets printed so far, each [num, size, paths]
    calls,      \* history: comparator invocations [j, k, res], in order
    sets,       \* history: every set built and finished (printed or freed)
    cmp,        \* locals of one compare_files_content invocation (SpecCmp)
    run,        \* 1 in the run main starts, 2 in a second run (SpecRerun)
    printed1,   \* history: what the first run printed
    calls1,     \* history: the comparator invocations of the first run
    items1,     \* history: the catalog the first run worked on
    alloc_failures, \* history: add_file_to_list calls that returned -1
    summary     \* stdout: the closing line of find_and_print_duplicates

vars == <<items, disk, pc, i, j, k, block_start, block_end,
          current_duplicate_set, duplicate_sets_found, printed, calls, sets,
          cmp, run, printed1, calls1, items1, alloc_failures, summary>>

\* ------------------------------------------------------------ input domains
Bytes == 0..MaxByte

\* All byte sequences of length n.
RECURSIVE SeqsOfLen(_)
SeqsOfLen(n) ==
    IF n = 0 THEN {<<>>}
    ELSE {Append(s, b) : s \in SeqsOfLen(n - 1), b \in Bytes}

\* Every file content of at most MaxLen bytes (the empty file included).
AllFiles == UNION {SeqsOfLen(n) : n \in 0..MaxLen}

\* The contents of the files the collector finds on disk: three contents of
\* one size, which differ in the first byte or only in the second, and one
\* content of another size.
DiskFiles == {<<0>>, <<0, 0>>, <<0, 1>>, <<1, 1>>}

\* Path names: the digits of n in base 2 as ASCII bytes ("1", "10", "11",
\* "100", ...), so that byte-wise order differs from the order of creation.
RECURSIVE PathOf(_)
PathOf(n) ==
    IF n < 2 THEN <<48 + n>>
    ELSE Append(PathOf(n \div 2), 48 + (n % 2))

Paths == {PathOf(n) : n \in 1..MaxFiles}

\* The MIME type the external `file` command reports: a function of the
\* file's content alone; DEFAULT_MIME_TYPE when it recognises nothing.
DEFAULT_MIME_TYPE == "application/octet-stream"
get_file_mime_type_posix(bytes) ==
    IF bytes # <<>> /\ bytes[1] = 0 THEN "text/plain" ELSE DEFAULT_MIME_TYPE

Min(a, b) == IF a < b THEN a ELSE b

\* --------------------------------------------------- compare_files_content
\* read(fd, buffer, READ_BUFFER_SIZE) at offset off of a file: the bytes read.
ReadChunk(file, off) ==
    SubSeq(file, off + 1, off + Min(READ_BUFFER_SIZE, Len(file) - off))

\* memcmp over the whole buffers, whatever n
\* (`memcmp(buffer1, buffer2, READ_BUFFER_SIZE)`).
memcmp_wholeBuffer(b1, b2, n) ==
    IF \A x \in 1..READ_BUFFER_SIZE : b1[x] = b2[x] THEN 0 ELSE 1

\* memcmp(buffer1, buffer2, n): 0 when the first n bytes agree.
memcmp(b1, b2, n) ==
    IF \A x \in 1..n : b1[x] = b2[x] THEN 0 ELSE 1

\* Locals at entry (lines 20-26); f1, f2 are the files path1, path2 name.
\* buffer1 and buffer2 are not initialised: they hold what the stack holds,
\* stack1 and stack2. nopen, nclose, nread, ncompared count the descriptors
\* open, the close() calls, the read() calls and the bytes handed to memcmp;
\* nclose1 and nclose2 count the close() calls on fd1 and fd2; nfail counts
\* the system calls that failed; ninvoke numbers the invocation.
CmpEntry(f1, f2, stack1, stack2, n) ==
    [pc |-> "open1", f1 |-> f1, f2 |-> f2, fd1 |-> -1, fd2 |-> -1,
     off1 |-> 0, off2 |-> 0, buffer1 |-> stack1, buffer2 |-> stack2,
     bytes_read1 |-> 0, bytes_read2 |-> 0, result |-> 0,
     close1_err |-> 0, close2_err |-> 0,
     nopen |-> 0, nclose |-> 0, nread |-> 0, ncompared |-> 0, nfail |-> 0,
     nclose1 |-> 0, nclose2 |-> 0, ninvoke |-> n]

\* A buffer of READ_BUFFER_SIZE bytes, every byte b.
Filled(b) == [x \in 1..READ_BUFFER_SIZE |-> b]

\* The first invocation, on a stack of zero bytes.
CmpStart(f1, f2) == CmpEntry(f1, f2, Filled(0), Filled(0), 1)

\* read() into a buffer: the bytes read replace the first bytes of the
\* buffer, the rest of the buffer is left as it was.
ReadInto(buffer, chunk) ==
    [x \in 1..READ_BUFFER_SIZE |->
        IF x <= Len(chunk) THEN chunk[x] ELSE buffer[x]]

CmpIdle == [CmpStart(<<>>, <<>>) EXCEPT !.pc = "idle"]

\* Lines 28-32.
CmpOpen1(c, fail) ==
    IF fail THEN [c EXCEPT !.pc = "ret", !.result = -1, !.nfail = @ + 1]
    ELSE [c EXCEPT !.pc = "open2", !.fd1 = 3, !.nopen = @ + 1]

\* CmpOpen2 returning without closing fd1 when the second open fails.
CmpOpen2_leaksFd1(c, fail) ==
    IF fail
    THEN [c EXCEPT !.pc = "ret", !.result = -1, !.nfail = @ + 1]
    ELSE [c EXCEPT !.pc = "read1", !.fd2 = 4, !.nopen = @ + 1]

\* Lines 34-41: on failure fd1 is closed before returning.
CmpOpen2(c, fail) ==
    IF fail
    THEN [c EXCEPT !.pc = "ret", !.result = -1, !.nfail = @ + 1,
                   !.nopen = @ - 1, !.nclose = @ + 1, !.nclose1 = @ + 1]
    ELSE [c EXCEPT !.pc = "read1", !.fd2 = 4, !.nopen = @ + 1]

\* Lines 45-50.
CmpRead1(c, fail) ==
    IF fail
    THEN [c EXCEPT !.pc = "close1", !.bytes_read1 = -1, !.result = -1,
                   !.nread = @ + 1, !.nfail = @ + 1]
    ELSE LET chunk == ReadChunk(c.f1, c.off1)
         IN [c EXCEPT !.pc = "read2", !.buffer1 = ReadInto(@, chunk),
                      !.bytes_read1 = Len(chunk), !.off1 = @ + Len(chunk),
                      !.nread = @ + 1]

\* CmpRead2 taking end of file on either descriptor for identical
\* (`bytes_read1 == 0 || bytes_read2 == 0` tested first).
CmpRead2_eitherEof(c, fail) ==
    IF fail
    THEN [c EXCEPT !.pc = "close1", !.bytes_read2 = -1, !.result = -1,
                   !.nread = @ + 1, !.nfail = @ + 1]
    ELSE LET chunk == ReadChunk(c.f2, c.off2)
             d == [c EXCEPT !.buffer2 = ReadInto(@, chunk),
                            !.bytes_read2 = Len(chunk),
                            !.off2 = @ + Len(chunk), !.nread = @ + 1]
         IN IF d.bytes_read1 = 0 \/ d.bytes_read2 = 0
            THEN [d EXCEPT !.pc = "close1", !.result = 1]
            ELSE IF d.bytes_read1 # d.bytes_read2
            THEN [d EXCEPT !.pc = "close1", !.result = 0]
            ELSE IF memcmp(d.buffer1, d.buffer2, d.bytes_read1) # 0
            THEN [d EXCEPT !.pc = "close1", !.result = 0,
                           !.ncompared = @ + d.bytes_read1]
            ELSE [d EXCEPT !.pc = "read1",
                           !.ncompared = @ + d.bytes_read1]

\* Lines 52-76: the second read and the three tests on what was read.
CmpRead2(c, fail) ==
    IF fail
    THEN [c EXCEPT !.pc = "close1", !.bytes_read2 = -1, !.result = -1,
                   !.nread = @ + 1, !.nfail = @ + 1]
    ELSE LET chunk == ReadChunk(c.f2, c.off2)
             d == [c EXCEPT !.buffer2 = ReadInto(@, chunk),
                            !.bytes_read2 = Len(chunk),
                            !.off2 = @ + Len(chunk), !.nread = @ + 1]
         IN IF d.bytes_read1 # d.bytes_read2
            THEN [d EXCEPT !.pc = "close1", !.result = 0]
            ELSE IF d.bytes_read1 = 0
            THEN [d EXCEPT !.pc = "close1", !.result = 1]
            ELSE IF memcmp(d.buffer1, d.buffer2, d.bytes_read1) # 0
            THEN [d EXCEPT !.pc = "close1", !.result = 0,
                           !.ncompared = @ + d.bytes_read1]
            ELSE [d EXCEPT !.pc = "read1",
                           !.ncompared = @ + d.bytes_read1]

\* Lines 83-86.
CmpClose1(c, fail) ==
    [c EXCEPT !.pc = "close2", !.close1_err = IF fail THEN 1 ELSE 0,
              !.nfail = IF fail THEN @ + 1 ELSE @,
              !.nopen = @ - 1, !.nclose = @ + 1, !.nclose1 = @ + 1]

\* CmpClose2 turning every verdict into error when a close failed
\* (`if (close1_err || close2_err) result = -1;`).
CmpClose2_anyVerdict(c, fail) ==
    LET d == [c EXCEPT !.close2_err = IF fail THEN 1 ELSE 0,
                       !.nfail = IF fail THEN @ + 1 ELSE @,
                       !.nopen = @ - 1, !.nclose = @ + 1,
                       !.nclose2 = @ + 1]
    IN [d EXCEPT !.pc = "ret",
                 !.result = IF d.close1_err = 1 \/ d.close2_err = 1
                            THEN -1 ELSE d.result]

\* Lines 87-99.
CmpClose2(c, fail) ==
    LET d == [c EXCEPT !.close2_err = IF fail THEN 1 ELSE 0,
                       !.nfail = IF fail THEN @ + 1 ELSE @,
                       !.nopen = @ - 1, !.nclose = @ + 1,
                       !.nclose2 = @ + 1]
    IN [d EXCEPT !.pc = "ret",
                 !.result = IF (d.close1_err = 1 \/ d.close2_err = 1)
                               /\ d.result = 1
                            THEN -1 ELSE d.result]

\* One system call of the invocation.
CmpStep(c, fail) ==
    CASE c.pc = "open1"  -> CmpOpen1(c, fail)
      [] c.pc = "open2"  -> CmpOpen2(c, fail)
      [] c.pc = "read1"  -> CmpRead1(c, fail)
      [] c.pc = "read2"  -> CmpRead2(c, fail)
      [] c.pc = "close1" -> CmpClose1(c, fail)
      [] c.pc = "close2" -> CmpClose2(c, fail)

\* The invocation run to its return; the n-th system call fails when
\* n = failAt (failAt = 0: none fails). The locals after a step are bound
\* by a quantifier (d) so that TLC computes them once per step, also when
\* it evaluates ENABLED.
RECURSIVE CmpRun(_, _, _)
CmpRun(c, n, failAt) ==
    IF c.pc = "ret" THEN c
    ELSE CHOOSE r \in {CmpRun(d, n + 1, failAt) :
                          d \in {CmpStep(c, n = failAt)}} : TRUE

\* Most system calls one invocation makes: 2 opens, 2 closes, and a pair of
\* reads per chunk plus the pair that sees end of file.
MaxSyscalls == 4 + 2 * ((MaxLen \div READ_BUFFER_SIZE) + 2)

compare_files_content(f1, f2, failAt) ==
    CmpRun(CmpStart(f1, f2), 1, failAt).result

\* ------------------------------------------------------------- file_list.c
\* create_file_list: an empty list (capacity is storage only).
create_file_list == <<>>

\* add_file_to_list storing the new item at the head of the list.
add_file_to_list_atHead(list, path, size, mime_type, alloc_ok) ==
    IF alloc_ok
    THEN <<[path |-> path, size |-> size, mime_type |-> mime_type,
            is_duplicate_of_prev |-> 0,
            processed_for_duplicates |-> 0]>> \o list
    ELSE list

\* add_file_to_list: the list with a new file_info_t appended; when an
\* allocation fails (alloc_ok = FALSE) the list is returned unchanged.
add_file_to_list(list, path, size, mime_type, alloc_ok) ==
    IF alloc_ok
    THEN Append(list, [path |-> path, size |-> size, mime_type |-> mime_type,
                       is_duplicate_of_prev |-> 0,
                       processed_for_duplicates |-> 0])
    ELSE list

\* strcmp on NUL-free byte strings: negative, zero or positive.
RECURSIVE strcmp(_, _)
strcmp(a, b) ==
    IF a = <<>> /\ b = <<>> THEN 0
    ELSE IF a = <<>> THEN -1
    ELSE IF b = <<>> THEN 1
    ELSE IF a[1] # b[1] THEN a[1] - b[1]
    ELSE strcmp(Tail(a), Tail(b))

\* compare_file_info without the secondary key: equal sizes compare equal.
compare_file_info_sizeOnly(file_a, file_b) ==
    IF file_a.size < file_b.size THEN -1
    ELSE IF file_a.size > file_b.size THEN 1
    ELSE 0

\* compare_file_info ordering equal sizes by MIME type before path.
compare_file_info_mimeFirst(file_a, file_b) ==
    IF file_a.size < file_b.size THEN -1
    ELSE IF file_a.size > file_b.size THEN 1
    ELSE IF file_a.mime_type # file_b.mime_type
    THEN (IF file_a.mime_type = DEFAULT_MIME_TYPE THEN -1 ELSE 1)
    ELSE strcmp(file_a.path, file_b.path)

\* compare_file_info: size first, then path.
compare_file_info(file_a, file_b) ==
    IF file_a.size < file_b.size THEN -1
    ELSE IF file_a.size > file_b.size THEN 1
    ELSE strcmp(file_a.path, file_b.path)

\* qsort with compare_file_info: every order of the items the comparator
\* accepts, built front to back: the next item is any remaining item that
\* compares less than or equal to all remaining ones (items that compare
\* equal may end in either order). S is the set of indices still to place.
RECURSIVE OrdersOf(_, _)
OrdersOf(list, S) ==
    IF S = {} THEN {<<>>}
    ELSE UNION {{<<list[m]>> \o rest : rest \in OrdersOf(list, S \ {m})} :
                   m \in {x \in S : \A y \in S :
                             compare_file_info(list[x], list[y]) <= 0}}

qsort(list) == OrdersOf(list, 1..Len(list))

\* sort_file_list: lists of fewer than 2 items are left alone.
sort_file_list(list) ==
    IF Len(list) < 2 THEN {list} ELSE qsort(list)

\* ------------------------------------------------------------------ main.c
\* What each group of actions leaves alone.
grouperVars == <<pc, i, j, k, block_start, block_end, current_duplicate_set,
                 duplicate_sets_found, printed, calls, sets>>
firstRun == <<run, printed1, calls1, items1>>

\* collect_files_from_directory, one directory entry: a non-empty regular
\* file not seen before is classified and appended (no MIME filter given).
Collect ==
    /\ pc = "collect"
    /\ Len(items) < MaxFiles
    /\ \E path \in Paths \ DOMAIN disk, bytes \in DiskFiles \ {<<>>} :
        /\ disk' = (path :> bytes) @@ disk
        /\ items' = add_file_to_list(items, path, Len(bytes),
                                     get_file_mime_type_posix(bytes), TRUE)
    /\ UNCHANGED <<grouperVars, cmp, firstRun,
                   alloc_failures, summary>>

\* main, lines 295-297, more than one record: the catalog is sorted.
MainSort ==
    /\ pc = "collect"
    /\ Len(items) > 1
    /\ items' \in sort_file_list(items)
    /\ pc' = "sorted"
    /\ UNCHANGED <<disk, i, j, k, block_start, block_end,
                   current_duplicate_set, duplicate_sets_found, printed,
                   calls, sets, cmp, firstRun,
                   alloc_failures, summary>>

\* main, lines 299-304, fewer than two records: nothing is sorted or grouped.
MainSkip ==
    /\ pc = "collect"
    /\ Len(items) <= 1
    /\ pc' = "finished"
    /\ UNCHANGED <<items, disk, i, j, k, block_start, block_end,
                   current_duplicate_set, duplicate_sets_found, printed,
                   calls, sets, cmp, firstRun,
                   alloc_failures, summary>>

\* ------------------------------------------------ find_and_print_duplicates
\* Line 114: the counter of printed sets starts at 0 on every call, whatever
\* an earlier call left.
InitialSetsFound_static(left) == left
InitialSetsFound(left) == 0

\* TooFewFiles letting a catalog of one record through (`list->count < 1`).
TooFewFiles_onlyEmpty(list) == Len(list) < 1

\* Line 104: the guard of find_and_print_duplicates (the list is never NULL).
TooFewFiles(list) == Len(list) < 2

\* main line 298 and lines 103-116: the call from main; the list has at
\* least 2 items, so the guard at line 104 passes and the scan starts.
MainFind ==
    /\ pc = "sorted"
    /\ ~TooFewFiles(items)
    /\ duplicate_sets_found' = InitialSetsFound(duplicate_sets_found)
    /\ i' = 1
    /\ pc' = "outer"
    /\ UNCHANGED <<items, disk, j, k, block_start, block_end,
                   current_duplicate_set, printed, calls, sets, cmp,
                   firstRun, alloc_failures,
                   summary>>

\* BlockEnd with the loop bound one short (block_end + 2 < list->count): the
\* last record of the catalog never joins a block.
RECURSIVE BlockEnd_shortBound(_, _, _)
BlockEnd_shortBound(list, bs, be) ==
    IF be + 2 <= Len(list) /\ list[be + 1].size = list[bs].size
    THEN BlockEnd_shortBound(list, bs, be + 1)
    ELSE be

\* Lines 122-127: the last index of the run of equal sizes starting at bs.
RECURSIVE BlockEnd(_, _, _)
BlockEnd(list, bs, be) ==
    IF be + 1 <= Len(list) /\ list[be + 1].size = list[bs].size
    THEN BlockEnd(list, bs, be + 1)
    ELSE be

\* Lines 116-130 and 187-189: one turn of the outer loop up to the block.
OuterLoop ==
    /\ pc = "outer"
    /\ i <= Len(items)
    /\ IF items[i].processed_for_duplicates = 1
       THEN /\ i' = i + 1
            /\ UNCHANGED <<pc, j, block_start, block_end>>
       ELSE LET be == BlockEnd(items, i, i)
            IN /\ block_start' = i
               /\ block_end' = be
               /\ IF be > i
                  THEN pc' = "seed" /\ j' = i /\ i' = i
                  ELSE pc' = "outer" /\ i' = be + 1 /\ j' = j
    /\ UNCHANGED <<items, disk, k, current_duplicate_set,
                   duplicate_sets_found, printed, calls, sets, cmp, firstRun,
                   alloc_failures, summary>>

\* Lines 191-195: the line that closes the output.
ClosingLine(found, count) ==
    IF found = 0 /\ count > 0
    THEN "No duplicate files found among the processed files."
    ELSE IF found > 0 THEN "--- End of Duplicate Sets ---"
    ELSE ""

\* Lines 116 and 191-197: the outer loop ends, the closing line is printed
\* and the function returns.
OuterExit ==
    /\ pc = "outer"
    /\ i > Len(items)
    /\ pc' = "finished"
    /\ summary' = ClosingLine(duplicate_sets_found, Len(items))
    /\ UNCHANGED <<items, disk, i, j, k, block_start, block_end,
                   current_duplicate_set, duplicate_sets_found, printed,
                   calls, sets, cmp, firstRun, alloc_failures>>

\* SeedLoopEnd without line 188: only the loop's `++i` moves the cursor.
SeedLoopEnd_noJump ==
    /\ pc = "seed"
    /\ j > block_end
    /\ i' = i + 1
    /\ pc' = "outer"
    /\ UNCHANGED <<items, disk, j, k, block_start, block_end,
                   current_duplicate_set, duplicate_sets_found, printed,
                   calls, sets, cmp, firstRun,
                   alloc_failures, summary>>

\* Lines 131 and 187-188: the seed loop ends; i moves past the block.
SeedLoopEnd ==
    /\ pc = "seed"
    /\ j > block_end
    /\ i' = block_end + 1
    /\ pc' = "outer"
    /\ UNCHANGED <<items, disk, j, k, block_start, block_end,
                   current_duplicate_set, duplicate_sets_found, printed,
                   calls, sets, cmp, firstRun,
                   alloc_failures, summary>>

\* Lines 132-134: a processed record is no seed.
SeedSkip ==
    /\ pc = "seed"
    /\ j <= block_end
    /\ items[j].processed_for_duplicates = 1
    /\ j' = j + 1
    /\ UNCHANGED <<items, disk, pc, i, k, block_start, block_end,
                   current_duplicate_set, duplicate_sets_found, printed,
                   calls, sets, cmp, firstRun,
                   alloc_failures, summary>>

\* Lines 136-145: a new set with items[j] in it; items[j] is marked.
StartSet ==
    /\ pc = "seed"
    /\ j <= block_end
    /\ items[j].processed_for_duplicates = 0
    /\ current_duplicate_set' =
           add_file_to_list(create_file_list, items[j].path, items[j].size,
                            items[j].mime_type, TRUE)
    /\ items' = [items EXCEPT ![j].processed_for_duplicates = 1]
    /\ k' = j + 1
    /\ pc' = "candidate"
    /\ UNCHANGED <<disk, i, j, block_start, block_end, duplicate_sets_found,
                   printed, calls, sets, cmp, firstRun,
                   alloc_failures, summary>>

\* CandidateSkip without the loop's `++k` (the candidate loop written as a
\* while loop whose `continue` skips the increment).
CandidateSkip_noAdvance ==
    /\ pc = "candidate"
    /\ k <= block_end
    /\ \/ items[k].processed_for_duplicates = 1
       \/ items[j].size # items[k].size
    /\ k' = k
    /\ UNCHANGED <<items, disk, pc, i, j, block_start, block_end,
                   current_duplicate_set, duplicate_sets_found, printed,
                   calls, sets, cmp, firstRun,
                   alloc_failures, summary>>

\* Lines 148-160: a processed candidate, or one of another size, is passed
\* over.
CandidateSkip ==
    /\ pc = "candidate"
    /\ k <= block_end
    /\ \/ items[k].processed_for_duplicates = 1
       \/ items[j].size # items[k].size
    /\ k' = k + 1
    /\ UNCHANGED <<items, disk, pc, i, j, block_start, block_end,
                   current_duplicate_set, duplicate_sets_found, printed,
                   calls, sets, cmp, firstRun,
                   alloc_failures, summary>>

\* The system call of a comparison that may fail (0: none). The environment
\* of a second run is that of the first: a pair the first run compared gets
\* the result it got then.
FailPoints(a, b) ==
    {failAt \in 0..MaxSyscalls :
        \A n \in 1..Len(calls1) :
            (calls1[n].j = a /\ calls1[n].k = b)
                => calls1[n].res =
                       compare_files_content(disk[items[a].path],
                                             disk[items[b].path], failAt)}

\* CompareOutcome with `if (comparison_result)` for
\* `if (comparison_result == 1)`: an error (-1) counts as identical.
CompareOutcome_errorJoins(set, list, kk, comparison_result) ==
    IF comparison_result # 0
    THEN [set |-> add_file_to_list(set, list[kk].path, list[kk].size,
                                   list[kk].mime_type, TRUE),
          items |-> [list EXCEPT ![kk].processed_for_duplicates = 1]]
    ELSE [set |-> set, items |-> list]

\* CompareOutcome without line 166: an identical candidate joins the set but
\* is not marked.
CompareOutcome_noMark(set, list, kk, comparison_result) ==
    IF comparison_result = 1
    THEN [set |-> add_file_to_list(set, list[kk].path, list[kk].size,
                                   list[kk].mime_type, TRUE),
          items |-> list]
    ELSE [set |-> set, items |-> list]

\* CompareOutcome marking the candidate in the error branch as well: a
\* record whose comparison failed is never looked at again.
CompareOutcome_errorMarks(set, list, kk, comparison_result) ==
    IF comparison_result = 1
    THEN [set |-> add_file_to_list(set, list[kk].path, list[kk].size,
                                   list[kk].mime_type, TRUE),
          items |-> [list EXCEPT ![kk].processed_for_duplicates = 1]]
    ELSE IF comparison_result = -1
    THEN [set |-> set,
          items |-> [list EXCEPT ![kk].processed_for_duplicates = 1]]
    ELSE [set |-> set, items |-> list]

\* Lines 164-171: what a comparison result does to the set being built and
\* to the catalog: an identical candidate joins the set and is marked; after
\* different or error nothing changes.
CompareOutcome(set, list, kk, comparison_result) ==
    IF comparison_result = 1
    THEN [set |-> add_file_to_list(set, list[kk].path, list[kk].size,
                                   list[kk].mime_type, TRUE),
          items |-> [list EXCEPT ![kk].processed_for_duplicates = 1]]
    ELSE [set |-> set, items |-> list]

\* Compare leaving the candidate loop after an error (a `break` in the
\* error branch).
Compare_errorStops ==
    /\ pc = "candidate"
    /\ k <= block_end
    /\ items[k].processed_for_duplicates = 0
    /\ items[j].size = items[k].size
    /\ \E failAt \in FailPoints(j, k) :
         LET comparison_result ==
                 compare_files_content(disk[items[j].path],
                                       disk[items[k].path], failAt)
             after == CompareOutcome(current_duplicate_set, items, k,
                                     comparison_result)
         IN /\ calls' = Append(calls, [j |-> j, k |-> k,
                                       res |-> comparison_result])
            /\ current_duplicate_set' = after.set
            /\ items' = after.items
            /\ k' = IF comparison_result = -1 THEN block_end + 1 ELSE k + 1
    /\ UNCHANGED <<disk, pc, i, j, block_start, block_end,
                   duplicate_sets_found, printed, sets, cmp, firstRun,
                   alloc_failures, summary>>

\* Compare trying the same candidate again after an error (`--k` in the
\* error branch).
Compare_retriesError ==
    /\ pc = "candidate"
    /\ k <= block_end
    /\ items[k].processed_for_duplicates = 0
    /\ items[j].size = items[k].size
    /\ \E failAt \in FailPoints(j, k) :
         LET comparison_result ==
                 compare_files_content(disk[items[j].path],
                                       disk[items[k].path], failAt)
             after == CompareOutcome(current_duplicate_set, items, k,
                                     comparison_result)
         IN /\ calls' = Append(calls, [j |-> j, k |-> k,
                                       res |-> comparison_result])
            /\ current_duplicate_set' = after.set
            /\ items' = after.items
            /\ k' = IF comparison_result = -1 THEN k ELSE k + 1
    /\ UNCHANGED <<disk, pc, i, j, block_start, block_end,
                   duplicate_sets_found, printed, sets, cmp, firstRun,
                   alloc_failures, summary>>

\* Lines 148 and 162-172: items[j] and items[k] are compared, the result
\* acted on, and the loop moves to the next candidate.
Compare ==
    /\ pc = "candidate"
    /\ k <= block_end
    /\ items[k].processed_for_duplicates = 0
    /\ items[j].size = items[k].size
    /\ \E failAt \in FailPoints(j, k) :
         LET comparison_result ==
                 compare_files_content(disk[items[j].path],
                                       disk[items[k].path], failAt)
             after == CompareOutcome(current_duplicate_set, items, k,
                                     comparison_result)
         IN /\ calls' = Append(calls, [j |-> j, k |-> k,
                                       res |-> comparison_result])
            /\ current_duplicate_set' = after.set
            /\ items' = after.items
    /\ k' = k + 1
    /\ UNCHANGED <<disk, pc, i, j, block_start, block_end,
                   duplicate_sets_found, printed, sets, cmp, firstRun,
                   alloc_failures, summary>>

\* EmitSet printing only sets of more than two items (`count > 2`).
EmitSet_needsThree ==
    /\ pc = "candidate"
    /\ k > block_end
    /\ IF Len(current_duplicate_set) > 2
       THEN /\ duplicate_sets_found' = duplicate_sets_found + 1
            /\ printed' =
                   Append(printed,
                          [num |-> duplicate_sets_found + 1,
                           size |-> items[j].size,
                           paths |-> [l \in 1..Len(current_duplicate_set) |->
                                         current_duplicate_set[l].path]])
       ELSE UNCHANGED <<duplicate_sets_found, printed>>
    /\ sets' = Append(sets, current_duplicate_set)
    /\ current_duplicate_set' = create_file_list
    /\ j' = j + 1
    /\ pc' = "seed"
    /\ UNCHANGED <<items, disk, i, k, block_start, block_end, calls, cmp,
                   firstRun, alloc_failures,
                   summary>>

\* Lines 148 and 174-185: the candidates are exhausted; a set of more than
\* one item is counted and printed, the set is freed and the next seed is
\* tried.
EmitSet ==
    /\ pc = "candidate"
    /\ k > block_end
    /\ IF Len(current_duplicate_set) > 1
       THEN /\ duplicate_sets_found' = duplicate_sets_found + 1
            /\ printed' =
                   Append(printed,
                          [num |-> duplicate_sets_found + 1,
                           size |-> items[j].size,
                           paths |-> [l \in 1..Len(current_duplicate_set) |->
                                         current_duplicate_set[l].path]])
       ELSE UNCHANGED <<duplicate_sets_found, printed>>
    /\ sets' = Append(sets, current_duplicate_set)
    /\ current_duplicate_set' = create_file_list
    /\ j' = j + 1
    /\ pc' = "seed"
    /\ UNCHANGED <<items, disk, i, k, block_start, block_end, calls, cmp,
                   firstRun, alloc_failures,
                   summary>>

\* A second call on the same sorted catalog (lines 103-116) after the caller
\* has cleared every processed_for_duplicates flag; what the first run
\* printed and compared is kept for comparison.
Rerun ==
    /\ pc = "finished"
    /\ run = 1
    /\ Len(items) > 1
    /\ Len(items) <= MaxRerunFiles
    /\ items' = [x \in 1..Len(items) |->
                    [items[x] EXCEPT !.processed_for_duplicates = 0]]
    /\ printed1' = printed
    /\ calls1' = calls
    /\ items1' = items
    /\ run' = 2
    /\ printed' = <<>>
    /\ calls' = <<>>
    /\ sets' = <<>>
    /\ duplicate_sets_found' = InitialSetsFound(duplicate_sets_found)
    /\ i' = 1
    /\ pc' = "outer"
    /\ summary' = ""
    /\ UNCHANGED <<disk, j, k, block_start, block_end,
                   current_duplicate_set, cmp, alloc_failures>>

\* The MIME types a record may carry.
MimeTypes == {"text/plain", DEFAULT_MIME_TYPE}

\* main lines 295-298 and lines 103-116 again, on a catalog that differs
\* from the one of the first run only in the mime_type fields (and has every
\* flag clear): it is sorted and the scan starts. What the first run worked
\* on, printed and compared is kept for comparison.
RerunRelabelled ==
    /\ pc = "finished"
    /\ run = 1
    /\ Len(items) > 1
    /\ Len(items) <= MaxMimeFiles
    /\ \E mime \in [1..Len(items) -> MimeTypes] :
          items' \in sort_file_list(
                        [x \in 1..Len(items) |->
                            [items[x] EXCEPT !.processed_for_duplicates = 0,
                                             !.mime_type = mime[x]]])
    /\ ~TooFewFiles(items)
    /\ printed1' = printed
    /\ calls1' = calls
    /\ items1' = items
    /\ run' = 2
    /\ printed' = <<>>
    /\ calls' = <<>>
    /\ sets' = <<>>
    /\ summary' = ""
    /\ duplicate_sets_found' = InitialSetsFound(duplicate_sets_found)
    /\ i' = 1
    /\ pc' = "outer"
    /\ UNCHANGED <<disk, j, k, block_start, block_end,
                   current_duplicate_set, cmp, alloc_failures>>

\* ------------------------------------ a caller other than main (SpecCall)
\* A caller sorts the catalog it has built, of any number of records, and
\* calls find_and_print_duplicates on it (file_list.h, duplicate_finder.h).
CallSort ==
    /\ pc = "collect"
    /\ items' \in sort_file_list(items)
    /\ pc' = "call"
    /\ UNCHANGED <<disk, i, j, k, block_start, block_end,
                   current_duplicate_set, duplicate_sets_found, printed,
                   calls, sets, cmp, firstRun, alloc_failures, summary>>

\* Lines 104-108: fewer than 2 records; the function returns at once.
FindGuard ==
    /\ pc = "call"
    /\ TooFewFiles(items)
    /\ pc' = "finished"
    /\ UNCHANGED <<items, disk, i, j, k, block_start, block_end,
                   current_duplicate_set, duplicate_sets_found, printed,
                   calls, sets, cmp, firstRun, alloc_failures, summary>>

\* Lines 104-116: 2 records or more; the scan starts.
FindStart ==
    /\ pc = "call"
    /\ ~TooFewFiles(items)
    /\ duplicate_sets_found' = InitialSetsFound(duplicate_sets_found)
    /\ i' = 1
    /\ pc' = "outer"
    /\ UNCHANGED <<items, disk, j, k, block_start, block_end,
                   current_duplicate_set, printed, calls, sets, cmp,
                   firstRun, alloc_failures, summary>>

\* -------------------------------------------- allocation failures (SpecAlloc)
\* collect_files_from_directory, lines 210-212: add_file_to_list returns -1
\* for a file, "Error adding file" is printed and the walk goes on without
\* the record.
CollectNoMem ==
    /\ pc = "collect"
    /\ Len(items) < MaxFiles
    /\ \E path \in Paths \ DOMAIN disk, bytes \in DiskFiles \ {<<>>} :
        /\ disk' = (path :> bytes) @@ disk
        /\ items' = add_file_to_list(items, path, Len(bytes),
                                     get_file_mime_type_posix(bytes), FALSE)
    /\ alloc_failures' = alloc_failures + 1
    /\ UNCHANGED <<grouperVars, cmp, firstRun, summary>>

\* Lines 136-145 when add_file_to_list returns -1 at line 144: the return
\* value is not looked at; the set stays empty and items[j] is marked.
StartSetNoMem ==
    /\ pc = "seed"
    /\ j <= block_end
    /\ items[j].processed_for_duplicates = 0
    /\ current_duplicate_set' =
           add_file_to_list(create_file_list, items[j].path, items[j].size,
                            items[j].mime_type, FALSE)
    /\ items' = [items EXCEPT ![j].processed_for_duplicates = 1]
    /\ k' = j + 1
    /\ pc' = "candidate"
    /\ alloc_failures' = alloc_failures + 1
    /\ UNCHANGED <<disk, i, j, block_start, block_end, duplicate_sets_found,
                   printed, calls, sets, cmp, firstRun, summary>>

\* Lines 148 and 162-172 when the files are identical and add_file_to_list
\* returns -1 at line 165: the return value is not looked at; items[k] is
\* marked without being in the set.
CompareNoMem ==
    /\ pc = "candidate"
    /\ k <= block_end
    /\ items[k].processed_for_duplicates = 0
    /\ items[j].size = items[k].size
    /\ \E failAt \in FailPoints(j, k) :
         LET comparison_result ==
                 compare_files_content(disk[items[j].path],
                                       disk[items[k].path], failAt)
         IN /\ comparison_result = 1
            /\ calls' = Append(calls, [j |-> j, k |-> k,
                                       res |-> comparison_result])
            /\ current_duplicate_set' =
                   add_file_to_list(current_duplicate_set, items[k].path,
                                    items[k].size, items[k].mime_type, FALSE)
            /\ items' = [items EXCEPT ![k].processed_for_duplicates = 1]
    /\ k' = k + 1
    /\ alloc_failures' = alloc_failures + 1
    /\ UNCHANGED <<disk, pc, i, j, block_start, block_end,
                   duplicate_sets_found, printed, sets, cmp, firstRun,
                   summary>>

\* ------------------------------------------------------------ specification
Init ==
    /\ items = create_file_list
    /\ disk = <<>>
    /\ pc = "collect"
    /\ i = 1 /\ j = 1 /\ k = 1
    /\ block_start = 1 /\ block_end = 1
    /\ current_duplicate_set = create_file_list
    /\ duplicate_sets_found = 0
    /\ printed = <<>>
    /\ calls = <<>>
    /\ sets = <<>>
    /\ cmp = CmpIdle
    /\ run = 1
    /\ printed1 = <<>>
    /\ calls1 = <<>>
    /\ items1 = <<>>
    /\ alloc_failures = 0
    /\ summary = ""

Next ==
    \/ Collect
    \/ MainSort
    \/ MainSkip
    \/ MainFind
    \/ OuterLoop
    \/ OuterExit
    \/ SeedLoopEnd
    \/ SeedSkip
    \/ StartSet
    \/ CandidateSkip
    \/ Compare
    \/ EmitSet

Spec == Init /\ [][Next]_vars

\* The run of main as a sequential program, on catalogs of at most
\* MaxFairFiles records: while a step is possible, a step is taken.
NextFair == Next /\ Len(items') <= MaxFairFiles

SpecFair == Init /\ [][NextFair]_vars /\ WF_vars(NextFair)

\* The run of main followed by a second run of the grouper.
NextRerun == Next \/ Rerun

SpecRerun == Init /\ [][NextRerun]_vars

\* The run of main followed by a run on the catalog with other MIME types.
NextMime == Next \/ RerunRelabelled

SpecMime == Init /\ [][NextMime]_vars

\* The run of main when memory runs short: any call of add_file_to_list may
\* fail to allocate.
NextAlloc ==
    \/ Next
    \/ CollectNoMem
    \/ StartSetNoMem
    \/ CompareNoMem

SpecAlloc == Init /\ [][NextAlloc]_vars

\* find_and_print_duplicates called on any catalog, of 0 or 1 record too.
NextCall ==
    \/ Collect
    \/ CallSort
    \/ FindGuard
    \/ FindStart
    \/ OuterLoop
    \/ OuterExit
    \/ SeedLoopEnd
    \/ SeedSkip
    \/ StartSet
    \/ CandidateSkip
    \/ Compare
    \/ EmitSet

SpecCall == Init /\ [][NextCall]_vars

\* ----------------------------------- SpecCmp: one comparator invocation
\* The two files of the first invocation are any two contents, of equal
\* length or not; every system call may fail.
SysOpen1 ==
    /\ cmp.pc = "open1"
    /\ \E fail \in BOOLEAN : cmp' = CmpOpen1(cmp, fail)
    /\ UNCHANGED <<items, disk, grouperVars, firstRun,
                   alloc_failures, summary>>

SysOpen2 ==
    /\ cmp.pc = "open2"
    /\ \E fail \in BOOLEAN : cmp' = CmpOpen2(cmp, fail)
    /\ UNCHANGED <<items, disk, grouperVars, firstRun,
                   alloc_failures, summary>>

SysRead1 ==
    /\ cmp.pc = "read1"
    /\ \E fail \in BOOLEAN : cmp' = CmpRead1(cmp, fail)
    /\ UNCHANGED <<items, disk, grouperVars, firstRun,
                   alloc_failures, summary>>

SysRead2 ==
    /\ cmp.pc = "read2"
    /\ \E fail \in BOOLEAN : cmp' = CmpRead2(cmp, fail)
    /\ UNCHANGED <<items, disk, grouperVars, firstRun,
                   alloc_failures, summary>>

SysClose1 ==
    /\ cmp.pc = "close1"
    /\ \E fail \in BOOLEAN : cmp' = CmpClose1(cmp, fail)
    /\ UNCHANGED <<items, disk, grouperVars, firstRun,
                   alloc_failures, summary>>

SysClose2 ==
    /\ cmp.pc = "close2"
    /\ \E fail \in BOOLEAN : cmp' = CmpClose2(cmp, fail)
    /\ UNCHANGED <<items, disk, grouperVars, firstRun,
                   alloc_failures, summary>>

\* Lines 19-26 again: the function has returned and is called once more, on
\* two files of the catalog; its buffers lie where those of the invocation
\* before lay and hold what that one left in them.
SysCall ==
    /\ cmp.pc = "ret"
    /\ cmp.ninvoke < MaxInvocations
    /\ \E f1, f2 \in DiskFiles :
          cmp' = CmpEntry(f1, f2, cmp.buffer1, cmp.buffer2, cmp.ninvoke + 1)
    /\ UNCHANGED <<items, disk, grouperVars, firstRun,
                   alloc_failures, summary>>

\* What the stack may hold where the buffers of the first invocation lie.
StackBytes == {Filled(0), Filled(MaxByte)}

InitCmp ==
    /\ items = create_file_list
    /\ disk = <<>>
    /\ pc = "compare"
    /\ i = 1 /\ j = 1 /\ k = 1
    /\ block_start = 1 /\ block_end = 1
    /\ current_duplicate_set = create_file_list
    /\ duplicate_sets_found = 0
    /\ printed = <<>>
    /\ calls = <<>>
    /\ sets = <<>>
    /\ run = 1
    /\ printed1 = <<>>
    /\ calls1 = <<>>
    /\ items1 = <<>>
    /\ alloc_failures = 0
    /\ summary = ""
    /\ \E f1, f2 \in AllFiles, stack1, stack2 \in StackBytes :
          cmp = CmpEntry(f1, f2, stack1, stack2, 1)

NextCmp ==
    \/ SysOpen1
    \/ SysOpen2
    \/ SysRead1
    \/ SysRead2
    \/ SysClose1
    \/ SysClose2
    \/ SysCall

SpecCmp == InitCmp /\ [][NextCmp]_vars

\* ------------------------------------------------- vocabulary of the claims
Range(s) == {s[x] : x \in DOMAIN s}

\* The catalog index of the record with this path (paths are distinct).
Idx(path) == CHOOSE x \in 1..Len(items) : items[x].path = path

\* The catalog indices of the members of a printed set, and of a set built.
Members(p) == {Idx(p.paths[l]) : l \in 1..Len(p.paths)}
MembersOf(set) == {Idx(set[l].path) : l \in 1..Len(set)}

\* The bytes of the file a record names.
Content(x) == disk[items[x].path]

DistinctPaths ==
    \A a, b \in 1..Len(items) : a # b => items[a].path # items[b].path

\* Byte-wise lexicographic order, stated without strcmp: a is a prefix of b,
\* or a has the smaller byte at the first place where they differ.
LexLeq(a, b) ==
    \/ /\ Len(a) <= Len(b)
       /\ \A x \in 1..Len(a) : a[x] = b[x]
    \/ \E x \in 1..Min(Len(a), Len(b)) :
          /\ \A y \in 1..(x - 1) : a[y] = b[y]
          /\ a[x] < b[x]

SortedCatalog ==
    \A x \in 1..(Len(items) - 1) :
        \/ items[x].size < items[x + 1].size
        \/ /\ items[x].size = items[x + 1].size
           /\ LexLeq(items[x].path, items[x + 1].path)

\* No comparison of this run returned error, and each returned identical
\* exactly for two files of the same content.
ComparatorExact ==
    \A c \in Range(calls) :
        /\ c.res # -1
        /\ (c.res = 1) <=> (Content(c.j) = Content(c.k))

\* The classes of records of one size and one content with 2 or more members.
DuplicateClasses ==
    {cl \in {{b \in 1..Len(items) :
                 /\ items[b].size = items[a].size
                 /\ Content(b) = Content(a)} : a \in 1..Len(items)} :
        Cardinality(cl) >= 2}

\* ------------------------------------------------------------------ claims
\* C1: on a sorted catalog of distinct paths, when no comparison returns
\* error and identical is returned exactly for equal contents, the finished
\* grouper has printed exactly the classes of equal size and content that
\* have 2 or more members, each class once and whole, and nothing else.
C1_ExactClasses ==
    (pc = "finished" /\ SortedCatalog /\ DistinctPaths /\ ComparatorExact)
        => /\ {Members(printed[n]) : n \in DOMAIN printed} = DuplicateClasses
           /\ Len(printed) = Cardinality(DuplicateClasses)

\* Two sets of one size were printed in a run without comparator errors.
C1_Witness ==
    /\ pc = "finished"
    /\ ComparatorExact
    /\ Len(printed) = 2
    /\ printed[1].size = printed[2].size

\* C2: the members of every printed set have one size, and the comparator
\* (no system call failing) returns identical for every two of them.
C2_SetsIdentical ==
    \A n \in DOMAIN printed :
        \A a, b \in Members(printed[n]) :
            /\ items[a].size = items[b].size
            /\ items[a].size = printed[n].size
            /\ compare_files_content(Content(a), Content(b), 0) = 1

\* A printed set has two members that the grouper never compared with each
\* other.
C2_Witness ==
    \E n \in DOMAIN printed :
        \E a, b \in Members(printed[n]) :
            /\ a # b
            /\ \A c \in Range(calls) : {c.j, c.k} # {a, b}

\* Every set built so far: the finished ones and the one under construction.
AllSets == Append(sets, current_duplicate_set)

\* No record is in two sets, or twice in one.
AtMostOneSet ==
    \A a, b \in DOMAIN AllSets :
        \A la \in DOMAIN AllSets[a], lb \in DOMAIN AllSets[b] :
            AllSets[a][la].path = AllSets[b][lb].path => (a = b /\ la = lb)

\* A step keeps every flag that is set.
FlagsKept ==
    \A x \in 1..Len(items) :
        items[x].processed_for_duplicates = 1
            => items'[x].processed_for_duplicates = 1

\* A step that puts a record into a set (as seed or as match) takes a record
\* whose flag was clear.
JoinsUnflagged ==
    Len(current_duplicate_set') > Len(current_duplicate_set)
        => LET new == current_duplicate_set'[Len(current_duplicate_set')]
           IN items[Idx(new.path)].processed_for_duplicates = 0

\* The invocation a step makes, if it makes one.
Invokes == Len(calls') = Len(calls) + 1
Invoked == calls'[Len(calls')]

\* C3 as stated: a record is in at most one set; a set flag is never
\* cleared; a flagged record is never again a seed, an argument of the
\* comparator, or added to a set.
C3_Original ==
    /\ []AtMostOneSet
    /\ [][/\ FlagsKept
          /\ JoinsUnflagged
          /\ Invokes =>
                /\ items[Invoked.j].processed_for_duplicates = 0
                /\ items[Invoked.k].processed_for_duplicates = 0]_vars

\* C3 amended: a record is in at most one set; a set flag is never cleared;
\* a flagged record is never again a seed, the comparison target (second
\* argument) of the comparator, or added to a set. The first argument of
\* every invocation is the seed of the set under construction, whose flag
\* was set when the set was started.
C3_VisitedOnce ==
    /\ []AtMostOneSet
    /\ [][/\ FlagsKept
          /\ JoinsUnflagged
          /\ Invokes =>
                /\ items[Invoked.k].processed_for_duplicates = 0
                /\ items[Invoked.j].processed_for_duplicates = 1
                /\ current_duplicate_set[1].path = items[Invoked.j].path]_vars

\* The candidate cursor stands on a record that an earlier seed has matched
\* and flagged.
C3_Witness ==
    /\ pc = "candidate"
    /\ k <= block_end
    /\ items[k].processed_for_duplicates = 1
    /\ \E c \in Range(calls) : c.k = k /\ c.res = 1

\* The records that are in a printed set.
Reported == UNION {Members(printed[n]) : n \in DOMAIN printed}

\* C4: after the grouper has finished, a record in no printed set either has
\* no record of its size beside it, or every comparison it took part in
\* returned different or error.
C4_Unreported ==
    pc = "finished" =>
        \A x \in 1..Len(items) :
            x \notin Reported =>
                \/ \A y \in 1..Len(items) :
                      y # x => items[y].size # items[x].size
                \/ \A c \in Range(calls) :
                      x \in {c.j, c.k} => c.res \in {0, -1}

\* A record in no printed set has a record of its size beside it and took
\* part in a comparison that returned different and in one that returned
\* error.
C4_Witness ==
    /\ pc = "finished"
    /\ \E x \in 1..Len(items) :
          /\ x \notin Reported
          /\ \E y \in 1..Len(items) : y # x /\ items[y].size = items[x].size
          /\ \E c \in Range(calls) : x \in {c.j, c.k} /\ c.res = 0
          /\ \E c \in Range(calls) : x \in {c.j, c.k} /\ c.res = -1

\* C5: a comparison of (items[j], items[k]) that returns error leaves the
\* set and every flag as they were (items[k] is not added and stays
\* unflagged), the scan goes on with candidate k + 1 of the same seed and
\* block, and no set ever holds both items[j] and items[k].
C5_ErrorSkipsPair ==
    /\ [][(Invokes /\ Invoked.res = -1) =>
             /\ Invoked.j = j /\ Invoked.k = k
             /\ current_duplicate_set' = current_duplicate_set
             /\ items' = items
             /\ items'[k].processed_for_duplicates = 0
             /\ printed' = printed
             /\ pc' = "candidate" /\ k' = k + 1
             /\ j' = j /\ block_start' = block_start
             /\ block_end' = block_end]_vars
    /\ [](\A c \in Range(calls) :
             c.res = -1 =>
                 /\ \A a \in DOMAIN AllSets :
                       ~({c.j, c.k} \subseteq MembersOf(AllSets[a]))
                 /\ \A n \in DOMAIN printed :
                       ~({c.j, c.k} \subseteq Members(printed[n])))

\* After an error for (j, k) the same seed has compared candidate k + 1.
C5_Witness ==
    \E a, b \in DOMAIN calls :
        /\ a < b
        /\ calls[a].res = -1
        /\ calls[b].j = calls[a].j
        /\ calls[b].k = calls[a].k + 1

\* C6 as stated: after an error for (seed, items[k]), items[k] is never
\* again the second argument of the comparator.
C6_Original ==
    \A a, b \in DOMAIN calls :
        (a < b /\ calls[a].res = -1) => calls[b].k # calls[a].k

\* The seed of a finished set, as a catalog index.
SeedOf(set) == Idx(set[1].path)

\* C6 amended: after an error for (items[j], items[k]) the same seed never
\* passes items[k] again; items[k] stays unflagged, and every later seed
\* between j and k passes it to the comparator again as long as no seed has
\* matched it.
C6_RetriedByLaterSeeds ==
    \A a \in DOMAIN calls :
        calls[a].res = -1 =>
            /\ \A b \in DOMAIN calls :
                  (a < b /\ calls[b].k = calls[a].k)
                      => /\ calls[a].j < calls[b].j
                         /\ calls[b].j < calls[b].k
            /\ \A n \in DOMAIN sets :
                  (calls[a].j < SeedOf(sets[n]) /\ SeedOf(sets[n]) < calls[a].k)
                      => \E b \in DOMAIN calls :
                            /\ a < b
                            /\ calls[b].k = calls[a].k
                            /\ \/ calls[b].j = SeedOf(sets[n])
                               \/ /\ calls[b].j < SeedOf(sets[n])
                                  /\ calls[b].res = 1

\* A record whose comparison with one seed returned error has been compared
\* with a later seed.
C6_Witness ==
    \E a, b \in DOMAIN calls :
        /\ a < b
        /\ calls[a].res = -1
        /\ calls[b].k = calls[a].k
        /\ calls[b].j > calls[a].j

\* C7: printed sets come in increasing catalog index of their seeds, hence
\* in ascending size and, for equal size, ascending seed path; the seed is
\* the first and lowest-index member of its set, and the members follow in
\* strictly increasing catalog index.
C7_OutputOrder ==
    /\ \A n \in DOMAIN printed :
          LET p == printed[n].paths
          IN /\ \A l1, l2 \in DOMAIN p : l1 < l2 => Idx(p[l1]) < Idx(p[l2])
             /\ \A c \in Range(calls) :
                   (c.res = 1 /\ c.k \in Members(printed[n]))
                       => Idx(p[1]) = c.j
    /\ \A n, m \in DOMAIN printed :
          n < m =>
              /\ Idx(printed[n].paths[1]) < Idx(printed[m].paths[1])
              /\ \/ printed[n].size < printed[m].size
                 \/ /\ printed[n].size = printed[m].size
                    /\ printed[n].paths[1] # printed[m].paths[1]
                    /\ LexLeq(printed[n].paths[1], printed[m].paths[1])

\* Two sets of different sizes have been printed.
C7_Witness ==
    /\ Len(printed) = 2
    /\ printed[1].size < printed[2].size

Occurrences(list, r) == Cardinality({x \in DOMAIN list : list[x] = r})

\* C9: sort_file_list leaves the catalog with the same records (a
\* rearrangement), in ascending size and, for equal sizes, in ascending
\* byte-wise path order.
C9_SortOrders ==
    [][(pc = "collect" /\ pc' = "sorted") =>
          /\ Len(items') = Len(items)
          /\ \A r \in Range(items) \cup Range(items') :
                Occurrences(items', r) = Occurrences(items, r)
          /\ SortedCatalog']_vars

\* The catalog has just been sorted and holds records of equal size and
\* records of different sizes.
C9_Witness ==
    /\ pc = "sorted"
    /\ \E x \in 1..(Len(items) - 1) : items[x].size = items[x + 1].size
    /\ \E x \in 1..(Len(items) - 1) : items[x].size < items[x + 1].size

\* The s-th chunk of READ_BUFFER_SIZE bytes of a file (empty past its end).
Chunk(file, s) ==
    [x \in 1..Min(READ_BUFFER_SIZE,
                  IF Len(file) > (s - 1) * READ_BUFFER_SIZE
                  THEN Len(file) - (s - 1) * READ_BUFFER_SIZE ELSE 0)
        |-> file[(s - 1) * READ_BUFFER_SIZE + x]]

\* The first step at which the chunks of two different files differ, in
\* length or in a byte.
FirstDifference(f1, f2) ==
    CHOOSE s \in 1..(MaxLen + 1) :
        /\ Chunk(f1, s) # Chunk(f2, s)
        /\ \A t \in 1..(s - 1) : Chunk(f1, t) = Chunk(f2, t)

\* The number of non-empty chunks of a file.
NChunks(file) == (Len(file) + READ_BUFFER_SIZE - 1) \div READ_BUFFER_SIZE

\* C10: when no system call fails, compare_files_content returns 1 exactly
\* for two files of the same bytes. It returns 0 at the first pair of reads
\* whose chunks differ in length or bytes and reads no further; it returns 1
\* only after a pair of reads that both returned 0 bytes; for two empty
\* files that is the first pair of reads, with no byte compared.
C10_ComparatorExact ==
    (cmp.pc = "ret" /\ cmp.nfail = 0) =>
        /\ cmp.result \in {0, 1}
        /\ (cmp.result = 1) <=> (cmp.f1 = cmp.f2)
        /\ cmp.f1 # cmp.f2 =>
              cmp.nread = 2 * FirstDifference(cmp.f1, cmp.f2)
        /\ cmp.result = 1 =>
              /\ cmp.bytes_read1 = 0 /\ cmp.bytes_read2 = 0
              /\ cmp.nread = 2 * (NChunks(cmp.f1) + 1)
              /\ cmp.ncompared = Len(cmp.f1)
        /\ (cmp.f1 = <<>> /\ cmp.f2 = <<>>) =>
              /\ cmp.result = 1 /\ cmp.nread = 2 /\ cmp.ncompared = 0

\* Two files of one length that differ only after their first chunk were
\* found different by the second pair of reads.
C10_Witness ==
    /\ cmp.pc = "ret"
    /\ cmp.nfail = 0
    /\ Len(cmp.f1) = Len(cmp.f2)
    /\ cmp.result = 0
    /\ cmp.nread = 4

\* What failed in the finished invocation, read from its locals.
Open1Failed == cmp.fd1 = -1
Open2Failed == cmp.fd1 # -1 /\ cmp.fd2 = -1
ReadFailed == cmp.bytes_read1 = -1 \/ cmp.bytes_read2 = -1
CloseFailed == cmp.close1_err = 1 \/ cmp.close2_err = 1

\* C11: compare_files_content returns -1 when the first or the second open
\* fails and when a read fails (whether or not a close fails afterwards);
\* when the opens and reads succeed and a close fails, it returns -1 for two
\* files of the same bytes (the loop concluded identical) and 0 for two
\* files that differ (the loop concluded different). It returns -1 in no
\* other case.
C11_ErrorMapping ==
    cmp.pc = "ret" =>
        /\ Open1Failed => cmp.result = -1
        /\ Open2Failed => cmp.result = -1
        /\ ReadFailed => cmp.result = -1
        /\ (~Open1Failed /\ ~Open2Failed /\ ~ReadFailed /\ CloseFailed) =>
              cmp.result = IF cmp.f1 = cmp.f2 THEN -1 ELSE 0
        /\ cmp.result = -1 =>
              (Open1Failed \/ Open2Failed \/ ReadFailed \/ CloseFailed)
        /\ cmp.result = -1 => cmp.nfail > 0

\* Two different files of one length were read to their first difference
\* without error, the close of the second descriptor failed, and the result
\* is different.
C11_Witness ==
    /\ cmp.pc = "ret"
    /\ Len(cmp.f1) = Len(cmp.f2)
    /\ ~ReadFailed
    /\ cmp.close1_err = 0
    /\ cmp.close2_err = 1
    /\ cmp.result = 0

\* The records whose flag is set, and the records that are in a set built.
Flagged == {x \in 1..Len(items) : items[x].processed_for_duplicates = 1}
InSomeSet == UNION {MembersOf(AllSets[a]) : a \in DOMAIN AllSets}

\* C12 as stated: once a call of add_file_to_list has failed to allocate
\* the run has been aborted (the call does not return), so every record the
\* grouper has marked is in the set it was added to.
C12_Original ==
    /\ alloc_failures > 0 => pc = "aborted"
    /\ Flagged \subseteq InSomeSet

\* The sizes in the catalog, the records of one size (its size block on a
\* sorted catalog) and the invocations made on records of that size.
Sizes == {items[x].size : x \in 1..Len(items)}
BlockOf(size) == {x \in 1..Len(items) : items[x].size = size}
CallsOn(size) == {n \in DOMAIN calls : items[calls[n].j].size = size}

\* C13: every comparator invocation is on two different records of one
\* size, no unordered pair of records is compared twice, and the
\* invocations on a size block of m records number at most m * (m - 1) / 2
\* (none for a block of one record).
C13_ComparisonsBounded ==
    /\ \A c \in Range(calls) :
          /\ c.j # c.k
          /\ items[c.j].size = items[c.k].size
    /\ \A a, b \in DOMAIN calls :
          a # b => {calls[a].j, calls[a].k} # {calls[b].j, calls[b].k}
    /\ \A size \in Sizes :
          LET m == Cardinality(BlockOf(size))
          IN /\ 2 * Cardinality(CallsOn(size)) <= m * (m - 1)
             /\ m = 1 => CallsOn(size) = {}

\* The grouper has finished a catalog with a block of 3 records and a block
\* of one record, and has compared every pair of the block of 3.
C13_Witness ==
    /\ pc = "finished"
    /\ \E size \in Sizes :
          /\ Cardinality(BlockOf(size)) = 3
          /\ Cardinality(CallsOn(size)) = 3
    /\ \E size \in Sizes : Cardinality(BlockOf(size)) = 1

\* C14: when find_and_print_duplicates has returned from a call on a catalog
\* of 0 or 1 record, it has printed no set and nothing else, built no set,
\* invoked the comparator never (so skipped no comparison for an error) and
\* set no flag.
C14_SmallCatalog ==
    (pc = "finished" /\ Len(items) <= 1) =>
        /\ printed = <<>>
        /\ duplicate_sets_found = 0
        /\ summary = ""
        /\ sets = <<>>
        /\ current_duplicate_set = <<>>
        /\ calls = <<>>
        /\ Flagged = {}

\* The function has returned from a call on a catalog of one record.
C14_Witness ==
    /\ pc = "finished"
    /\ Len(items) = 1

\* The paths of a catalog, in its order.
PathsOf(list) == [x \in 1..Len(list) |-> list[x].path]

\* C15: a second run of sort and grouper on a catalog that differs from the
\* first only in the mime_type fields, every pair compared again getting
\* the result it got before, works on the records in the same order, and
\* when it has finished it has made the same comparator invocations in the
\* same order and printed the same sets with the same members in the same
\* order.
C15_MimeIgnored ==
    run = 2 =>
        /\ PathsOf(items) = PathsOf(items1)
        /\ pc = "finished" =>
              /\ calls = calls1
              /\ printed = printed1

\* A second run has finished on a catalog in which two records of one size
\* have swapped their MIME types, after a first run that made comparisons
\* and printed two sets.
C15_Witness ==
    /\ run = 2
    /\ pc = "finished"
    /\ Len(printed1) >= 2
    /\ Len(calls1) >= 2
    /\ \E x, y \in 1..Len(items) :
          /\ items[x].size = items[y].size
          /\ items1[x].mime_type # items1[y].mime_type
          /\ items[x].mime_type = items1[y].mime_type
          /\ items[y].mime_type = items1[x].mime_type

\* C16: in every invocation close() is called at most once on a descriptor
\* and never on one that was not opened; at return it has been called
\* exactly once on each descriptor that was opened (none when the first
\* open failed, fd1 only when the second open failed, both otherwise) and
\* no descriptor is left open. An invocation reads each file from its
\* start and compares only bytes it has read itself: whatever an earlier
\* invocation left in the buffers, when no open or read fails the files
\* are found different exactly when their bytes differ.
C16_DescriptorsClosed ==
    /\ cmp.nclose1 <= 1 /\ cmp.nclose2 <= 1
    /\ cmp.fd1 = -1 => cmp.nclose1 = 0
    /\ cmp.fd2 = -1 => cmp.nclose2 = 0
    /\ cmp.nclose = cmp.nclose1 + cmp.nclose2
    /\ cmp.off1 <= Len(cmp.f1) /\ cmp.off2 <= Len(cmp.f2)
    /\ cmp.ncompared <= cmp.off1 /\ cmp.ncompared <= cmp.off2
    /\ cmp.pc = "ret" =>
          /\ cmp.nclose1 = IF cmp.fd1 # -1 THEN 1 ELSE 0
          /\ cmp.nclose2 = IF cmp.fd2 # -1 THEN 1 ELSE 0
          /\ cmp.nopen = 0
          /\ (~Open1Failed /\ ~Open2Failed /\ ~ReadFailed) =>
                ((cmp.result = 0) <=> (cmp.f1 # cmp.f2))

\* A second invocation has found two files identical although the bytes of
\* the buffers beyond the last bytes read, left there by the invocation
\* before, differ.
C16_Witness ==
    /\ cmp.pc = "ret"
    /\ cmp.ninvoke = 2
    /\ cmp.result = 1
    /\ cmp.nopen = 0
    /\ cmp.buffer1 # cmp.buffer2

\* The seeds of the sets built so far, one entry per set.
Seeds ==
    [a \in {b \in DOMAIN AllSets : AllSets[b] # <<>>} |-> AllSets[a][1].path]

\* C17: whatever the catalog and the comparator results, the run reaches
\* the return of find_and_print_duplicates. The outer cursor never moves
\* back and, when it moves, it moves to block_end + 1; the scan of a block
\* starts on the whole run of records of that size, none of them flagged,
\* compared or in a set yet (a block is scanned once); no record is the
\* seed of two sets; the function returns with the cursor past the last
\* record.
C17_Terminates ==
    /\ <>(pc = "finished")
    /\ [][/\ i' >= i
          /\ i' # i => i' = block_end' + 1
          /\ (pc = "outer" /\ pc' = "seed") =>
                /\ block_start'..block_end' = BlockOf(items[i].size)
                /\ \A x \in block_start'..block_end' :
                      /\ items[x].processed_for_duplicates = 0
                      /\ x \notin InSomeSet
                      /\ \A c \in Range(calls) : x \notin {c.j, c.k}]_vars
    /\ [](\A a, b \in DOMAIN Seeds : a # b => Seeds[a] # Seeds[b])
    /\ []((pc = "finished" /\ Len(items) > 1) => i = Len(items) + 1)

\* The function has returned from a catalog of MaxFairFiles records in two
\* size blocks, after a comparison that returned error.
C17_Witness ==
    /\ pc = "finished"
    /\ Len(items) = MaxFairFiles
    /\ Cardinality(Sizes) = 2
    /\ \E size \in Sizes : Cardinality(BlockOf(size)) >= 2
    /\ \E c \in Range(calls) : c.res = -1

\* C18: in a run on the sorted catalog, all flags clear at entry: when the
\* outer loop tests the record under its cursor i, that record is not
\* flagged (the skip at lines 117-119 is never taken); while a block is
\* scanned all of its records have one size, so the candidate loop never
\* meets a candidate of another size than the seed (lines 154-160 are never
\* reached); and at return a record is flagged exactly when its size block
\* has 2 or more records.
C18_DeadBranches ==
    /\ (pc = "outer" /\ i <= Len(items)) =>
          items[i].processed_for_duplicates = 0
    /\ pc \in {"seed", "candidate"} =>
          \A x \in block_start..block_end :
              items[x].size = items[block_start].size
    /\ (pc = "candidate" /\ k <= block_end) =>
          /\ j \in block_start..block_end
          /\ k \in block_start..block_end
          /\ items[j].size = items[k].size
    /\ pc = "finished" =>
          \A x \in 1..Len(items) :
              (items[x].processed_for_duplicates = 1)
                  <=> (Cardinality(BlockOf(items[x].size)) >= 2)

\* The function has returned; a record the comparator matched with none is
\* flagged and in no printed set, and a record alone in its block is not
\* flagged.
C18_Witness ==
    /\ pc = "finished"
    /\ \E x \in 1..Len(items) :
          /\ items[x].processed_for_duplicates = 1
          /\ x \notin Reported
    /\ \E x \in 1..Len(items) :
          /\ items[x].processed_for_duplicates = 0
          /\ Cardinality(BlockOf(items[x].size)) = 1

====
